---- MODULE Spec2Model ----
(***************************************************************************)
(* Model of src/etl/pipeline.py (class CloudDataPipeline).                 *)
(*                                                                         *)
(* A DataFrame is a record [cols, rows]: cols is the ordered sequence of   *)
(* column labels, rows the sequence of rows, each row a sequence of cells  *)
(* aligned with cols.  A cell is <<>> (NaN / null) or <<v>> (the value v). *)
(* Operation and rule descriptors are Python dicts: records whose DOMAIN   *)
(* is the set of keys present, read with dict.get semantics.               *)
(***************************************************************************)
EXTENDS Integers, Sequences, FiniteSets, TLC

VARIABLES
    \* ---- transform(df, transformations) call
    t_pc,           \* "call" | "returned" | "raised"
    t_df,           \* argument df
    t_transformations, \* argument transformations: [given, list]
    t_result,       \* what the call produced
    \* ---- run_etl_pipeline
    pc,             \* position of the run
    self,           \* the pipeline object's attributes
    bucket,         \* the object store: key -> object
    args,           \* arguments of the run
    obj,            \* result of get_object
    df,             \* extracted DataFrame
    df_transformed, \* transformed DataFrame
    buffer,         \* encoded output
    steps,          \* completed steps of the run, in order
    puts,           \* put_object requests issued by the run
    stats,          \* the returned stats dict
    error,          \* the exception that aborted the run
    \* ---- validate_data_quality
    v_pc,           \* "idle" | "returned" | "raised"
    v_rules,        \* the caller's rule dicts (mutable objects), by identity
    v_arg,          \* the table the caller passed
    v_df,           \* the caller's table after the call
    v_list,         \* the rule list passed (object identities)
    v_results,      \* the returned results dict
    v_last          \* per rule dict: the verdict of its latest evaluation

t_vars == <<t_pc, t_df, t_transformations, t_result>>
etl_vars == <<pc, self, bucket, args, obj, df, df_transformed, buffer, steps, puts, stats, error>>
v_vars == <<v_pc, v_rules, v_arg, v_df, v_list, v_results, v_last>>
vars == <<t_vars, etl_vars, v_vars>>

-----------------------------------------------------------------------------
(* Bounds of the model *)
MaxRows == 2
MaxOps == 2
MaxDuration == 2
MaxVRows == 3
MaxRules == 2
MaxReuseRows == 1
MaxReuseRules == 1

-----------------------------------------------------------------------------
(* Python / pandas data *)

Null == <<>>
IsNull(cell) == cell = Null
Val(cell) == cell[1]

\* dict.get(key, default)
Get(d, key, default) == IF key \in DOMAIN d THEN d[key] ELSE default

Range(s) == {s[i] : i \in DOMAIN s}

NRows(t) == Len(t.rows)
HasCol(t, c) == \E i \in DOMAIN t.cols : t.cols[i] = c
ColIndex(t, c) == CHOOSE i \in DOMAIN t.cols : t.cols[i] = c
\* df[c]: the column as a sequence of cells
Column(t, c) == [r \in 1..NRows(t) |-> t.rows[r][ColIndex(t, c)]]

Ok(t) == [ok |-> TRUE, df |-> t]
Raise(e) == [ok |-> FALSE, error |-> e]

RECURSIVE SumCells(_)
SumCells(s) ==
    IF s = <<>> THEN 0
    ELSE (IF IsNull(Head(s)) THEN 0 ELSE Val(Head(s))) + SumCells(Tail(s))

CountCells(s) == Cardinality({i \in DOMAIN s : ~IsNull(s[i])})

-----------------------------------------------------------------------------
(* The transform operations, lines 99-131 *)

\* df.dropna(subset=columns)
drop_nulls(t, d) ==
    LET subset == Get(d, "columns", t.cols)
    IN  IF \E i \in DOMAIN subset : ~HasCol(t, subset[i])
        THEN Raise("KeyError")
        ELSE Ok([t EXCEPT !.rows = SelectSeq(t.rows,
                    LAMBDA r : \A i \in DOMAIN subset :
                                  ~IsNull(r[ColIndex(t, subset[i])]))])

\* df.fillna(value)
fill_nulls(t, d) ==
    LET value == Get(d, "value", 0)
    IN  Ok([t EXCEPT !.rows =
              [r \in DOMAIN t.rows |->
                 [c \in DOMAIN t.cols |->
                    IF IsNull(t.rows[r][c]) THEN <<value>> ELSE t.rows[r][c]]]])

\* df.rename(columns=mapping): errors='ignore', labels absent from the frame
\* are left alone
rename(t, d) ==
    LET mapping == Get(d, "mapping", <<>>)
    IN  Ok([t EXCEPT !.cols =
              [i \in DOMAIN t.cols |->
                 IF t.cols[i] \in DOMAIN mapping THEN mapping[t.cols[i]]
                 ELSE t.cols[i]]])

\* The boolean expression "col cmp val" on one cell; a comparison with NaN is
\* false
Satisfies(cell, cond) ==
    /\ ~IsNull(cell)
    /\ CASE cond.cmp = ">"  -> Val(cell) > cond.val
         [] cond.cmp = "<"  -> Val(cell) < cond.val
         [] cond.cmp = "==" -> Val(cell) = cond.val

\* df.query(condition)
filter(t, d) ==
    IF "condition" \notin DOMAIN d THEN Raise("ValueError")
    ELSE LET condition == d.condition
         IN  IF ~HasCol(t, condition.col) THEN Raise("UndefinedVariableError")
             ELSE Ok([t EXCEPT !.rows = SelectSeq(t.rows,
                        LAMBDA r : Satisfies(r[ColIndex(t, condition.col)],
                                             condition))])

\* Lexicographic order on group keys (sequences of integers of one length)
RECURSIVE LexLess(_, _)
LexLess(k1, k2) ==
    IF k1 = <<>> THEN FALSE
    ELSE \/ Head(k1) < Head(k2)
         \/ Head(k1) = Head(k2) /\ LexLess(Tail(k1), Tail(k2))

RECURSIVE SortedKeys(_)
SortedKeys(S) ==
    IF S = {} THEN <<>>
    ELSE LET m == CHOOSE k \in S : \A j \in S : j = k \/ LexLess(k, j)
         IN  <<m>> \o SortedKeys(S \ {m})

\* df.groupby(group_by).agg(agg_dict).reset_index(): rows with a null key are
\* dropped, groups come out sorted by key, one row per group
aggregate(t, d) ==
    LET group_by == Get(d, "group_by", <<>>)
        agg_dict == Get(d, "aggregations", <<>>)
        KeyOf(r) == [i \in DOMAIN group_by |-> r[ColIndex(t, group_by[i])]]
        keyed    == SelectSeq(t.rows,
                       LAMBDA r : \A i \in DOMAIN group_by : ~IsNull(KeyOf(r)[i]))
        keys     == SortedKeys({[i \in DOMAIN group_by |-> Val(KeyOf(r)[i])]
                                   : r \in Range(keyed)})
        Group(k) == SelectSeq(keyed,
                       LAMBDA r : \A i \in DOMAIN group_by : Val(KeyOf(r)[i]) = k[i])
        Cells(k, c) == [j \in DOMAIN Group(k) |-> Group(k)[j][ColIndex(t, c)]]
        Reduce(k, a) == IF a[2] = "sum" THEN SumCells(Cells(k, a[1]))
                        ELSE CountCells(Cells(k, a[1]))
    IN  IF group_by = <<>> THEN Raise("ValueError")
        ELSE IF \E i \in DOMAIN group_by : ~HasCol(t, group_by[i])
        THEN Raise("KeyError")
        ELSE IF agg_dict = <<>> THEN Raise("ValueError")
        ELSE IF \E i \in DOMAIN agg_dict : ~HasCol(t, agg_dict[i][1])
        THEN Raise("KeyError")
        ELSE Ok([cols |-> group_by \o [i \in DOMAIN agg_dict |-> agg_dict[i][1]],
                 rows |-> [g \in DOMAIN keys |->
                             [i \in DOMAIN group_by |-> <<keys[g][i]>>]
                             \o [i \in DOMAIN agg_dict |->
                                   <<Reduce(keys[g], agg_dict[i])>>]]])

\* df[name] = value
add_column(t, d) ==
    LET col_name == d.name
        cell     == IF "value" \in DOMAIN d THEN <<d.value>> ELSE Null
    IN  IF HasCol(t, col_name)
        THEN Ok([t EXCEPT !.rows =
                   [r \in DOMAIN t.rows |->
                      [t.rows[r] EXCEPT ![ColIndex(t, col_name)] = cell]]])
        ELSE Ok([cols |-> Append(t.cols, col_name),
                 rows |-> [r \in DOMAIN t.rows |-> Append(t.rows[r], cell)]])

\* series.astype(dtype) on one cell: int keeps a number, bool maps it to
\* True/False (1/0), NaN is truthy
Cast(cell, dtype) ==
    IF dtype = "bool"
    THEN (IF IsNull(cell) \/ Val(cell) # 0 THEN <<1>> ELSE <<0>>)
    ELSE cell

\* convert_type that skips a column the table does not have
convert_type_Lenient(t, d) ==
    LET col_name == Get(d, "column", "None")
        dtype    == Get(d, "dtype", "None")
    IN  IF ~HasCol(t, col_name) THEN Ok(t)
        ELSE IF dtype \notin {"int", "bool"} THEN Raise("TypeError")
        ELSE IF dtype = "int" /\ \E r \in DOMAIN t.rows :
                                    IsNull(t.rows[r][ColIndex(t, col_name)])
        THEN Raise("ValueError")
        ELSE Ok([t EXCEPT !.rows =
                   [r \in DOMAIN t.rows |->
                      [t.rows[r] EXCEPT ![ColIndex(t, col_name)] =
                          Cast(t.rows[r][ColIndex(t, col_name)], dtype)]]])

\* df[col] = df[col].astype(dtype)
convert_type(t, d) ==
    LET col_name == Get(d, "column", "None")
        dtype    == Get(d, "dtype", "None")
    IN  IF ~HasCol(t, col_name) THEN Raise("KeyError")
        ELSE IF dtype \notin {"int", "bool"} THEN Raise("TypeError")
        ELSE IF dtype = "int" /\ \E r \in DOMAIN t.rows :
                                    IsNull(t.rows[r][ColIndex(t, col_name)])
        THEN Raise("ValueError")
        ELSE Ok([t EXCEPT !.rows =
                   [r \in DOMAIN t.rows |->
                      [t.rows[r] EXCEPT ![ColIndex(t, col_name)] =
                          Cast(t.rows[r][ColIndex(t, col_name)], dtype)]]])

\* The if/elif chain with a final else that rejects an unknown kind
ApplyOperation_Strict(t, d) ==
    LET operation == Get(d, "operation", "None")
    IN  CASE operation = "drop_nulls"   -> drop_nulls(t, d)
          [] operation = "fill_nulls"   -> fill_nulls(t, d)
          [] operation = "rename"       -> rename(t, d)
          [] operation = "filter"       -> filter(t, d)
          [] operation = "aggregate"    -> aggregate(t, d)
          [] operation = "add_column"   -> add_column(t, d)
          [] operation = "convert_type" -> convert_type(t, d)
          [] OTHER                      -> Raise("ValueError")

\* One iteration of the loop body: the if/elif chain on the operation kind
ApplyOperation(t, d) ==
    LET operation == Get(d, "operation", "None")
    IN  CASE operation = "drop_nulls"   -> drop_nulls(t, d)
          [] operation = "fill_nulls"   -> fill_nulls(t, d)
          [] operation = "rename"       -> rename(t, d)
          [] operation = "filter"       -> filter(t, d)
          [] operation = "aggregate"    -> aggregate(t, d)
          [] operation = "add_column"   -> add_column(t, d)
          [] operation = "convert_type" -> convert_type(t, d)
          [] OTHER                      -> Ok(t)

\* The loop with every operation applied to the argument df instead of
\* df_transformed: the last operation's output on df is what is left
TransformLoop_OnInput(cur, list, i) ==
    LET failing == {j \in i..Len(list) : ~ApplyOperation(cur, list[j]).ok}
    IN  IF failing # {}
        THEN LET j == CHOOSE k \in failing : \A m \in failing : k <= m
             IN  [ok |-> FALSE, error |-> ApplyOperation(cur, list[j]).error, at |-> j]
        ELSE IF i > Len(list) THEN [ok |-> TRUE, df |-> cur]
        ELSE [ok |-> TRUE, df |-> ApplyOperation(cur, list[Len(list)]).df]

\* The for loop from iteration i on, df_transformed being cur; an exception
\* leaves the loop at the iteration that raised it
RECURSIVE TransformLoop(_, _, _)
TransformLoop(cur, list, i) ==
    IF i > Len(list) THEN [ok |-> TRUE, df |-> cur]
    ELSE LET r == ApplyOperation(cur, list[i])
         IN  IF r.ok THEN TransformLoop(r.df, list, i + 1)
             ELSE [ok |-> FALSE, error |-> r.error, at |-> i]

\* transform(df, transformations); transformations is [given, list], given
\* FALSE standing for None
transform(t, transformations) ==
    IF transformations.given /\ transformations.list # <<>>
    THEN TransformLoop(t, transformations.list, 1)
    ELSE [ok |-> TRUE, df |-> t]

-----------------------------------------------------------------------------
(* validate_data_quality, lines 229-288 *)

\* An f-string "{count}<text>"
Message(count, text) == ToString(count) \o text

\* series.isnull().sum()
RECURSIVE IsNullSum(_)
IsNullSum(col) ==
    IF col = <<>> THEN 0
    ELSE (IF IsNull(Head(col)) THEN 1 ELSE 0) + IsNullSum(Tail(col))

\* series.duplicated(): entry i repeats an earlier entry (keep='first'; NaN
\* repeats NaN)
Duplicated(col, i) == \E j \in 1..(i - 1) : col[j] = col[i]

\* series.duplicated().sum()
RECURSIVE DuplicatedSum(_, _)
DuplicatedSum(col, i) ==
    IF i > Len(col) THEN 0
    ELSE (IF Duplicated(col, i) THEN 1 ELSE 0) + DuplicatedSum(col, i + 1)

\* The range test with the bounds themselves counted as out of range
OutOfRangeRows_Inclusive(t, column, min_val, max_val) ==
    SelectSeq(t.rows,
        LAMBDA r : LET cell == r[ColIndex(t, column)]
                   IN  /\ ~IsNull(cell)
                       /\ (Val(cell) <= min_val \/ Val(cell) >= max_val))

\* df[(df[column] < min_val) | (df[column] > max_val)]: a comparison with
\* NaN is false
OutOfRangeRows(t, column, min_val, max_val) ==
    SelectSeq(t.rows,
        LAMBDA r : LET cell == r[ColIndex(t, column)]
                   IN  /\ ~IsNull(cell)
                       /\ (Val(cell) < min_val \/ Val(cell) > max_val))

Passed == [verdict |-> "passed"]
Failed(message) == [verdict |-> "failed", error |-> message]

\* The chain with a final else that fails a rule of an unknown type
EvaluateRule_UnknownFails(rule, t) ==
    LET rule_type == Get(rule, "type", "None")
        column    == Get(rule, "column", "None")
    IN  IF rule_type \notin {"not_null", "unique", "range"}
        THEN Failed("unknown rule type")
        ELSE IF ~HasCol(t, column) THEN [verdict |-> "raise", error |-> "KeyError"]
        ELSE IF rule_type = "not_null"
        THEN LET null_count == IsNullSum(Column(t, column))
             IN  IF null_count = 0 THEN Passed
                 ELSE Failed(Message(null_count, " null values found"))
        ELSE IF rule_type = "unique"
        THEN LET duplicate_count == DuplicatedSum(Column(t, column), 1)
             IN  IF duplicate_count = 0 THEN Passed
                 ELSE Failed(Message(duplicate_count, " duplicates found"))
        ELSE IF "min" \notin DOMAIN rule \/ "max" \notin DOMAIN rule
        THEN [verdict |-> "raise", error |-> "TypeError"]
        ELSE LET out_of_range == OutOfRangeRows(t, column, rule.min, rule.max)
             IN  IF Len(out_of_range) = 0 THEN Passed
                 ELSE Failed(Message(Len(out_of_range), " values out of range"))

\* The if/elif chain on rule_type for one rule against df, lines 253-282
EvaluateRule(rule, t) ==
    LET rule_type == Get(rule, "type", "None")
        column    == Get(rule, "column", "None")
    IN  IF rule_type \notin {"not_null", "unique", "range"}
        THEN [verdict |-> "skipped"]
        ELSE IF ~HasCol(t, column) THEN [verdict |-> "raise", error |-> "KeyError"]
        ELSE IF rule_type = "not_null"
        THEN LET null_count == IsNullSum(Column(t, column))
             IN  IF null_count = 0 THEN Passed
                 ELSE Failed(Message(null_count, " null values found"))
        ELSE IF rule_type = "unique"
        THEN LET duplicate_count == DuplicatedSum(Column(t, column), 1)
             IN  IF duplicate_count = 0 THEN Passed
                 ELSE Failed(Message(duplicate_count, " duplicates found"))
        ELSE IF "min" \notin DOMAIN rule \/ "max" \notin DOMAIN rule
        THEN [verdict |-> "raise", error |-> "TypeError"]
        ELSE LET out_of_range == OutOfRangeRows(t, column, rule.min, rule.max)
             IN  IF Len(out_of_range) = 0 THEN Passed
                 ELSE Failed(Message(Len(out_of_range), " values out of range"))

\* The loop body with df narrowed to the rows a range rule found out of
\* range (df = df[...]), so that later rules see the narrowed table
ValidateStep_Narrowing(st, id) ==
    LET rule    == st.rules[id]
        outcome == EvaluateRule(rule, st.df)
        seen    == IF Get(rule, "type", "None") = "range" /\ outcome.verdict # "raise"
                   THEN [st.df EXCEPT !.rows =
                           OutOfRangeRows(st.df, rule.column, rule.min, rule.max)]
                   ELSE st.df
    IN  CASE outcome.verdict = "passed" ->
               [st EXCEPT !.passed = Append(@, id), !.last[id] = "passed",
                          !.df = seen]
          [] outcome.verdict = "failed" ->
               [st EXCEPT !.rules[id] = [error |-> outcome.error] @@ @,
                          !.failed = Append(@, id),
                          !.last[id] = "failed",
                          !.df = seen]
          [] outcome.verdict = "skipped" -> st
          [] outcome.verdict = "raise" ->
               [st EXCEPT !.ok = FALSE, !.error = outcome.error]

\* One iteration of the loop over rules.  st holds the rule dicts (by
\* identity), df, the passed and failed lists (of identities) and, per rule
\* dict, the verdict of its latest evaluation; the loop only reads df.
ValidateStep(st, id) ==
    LET outcome == EvaluateRule(st.rules[id], st.df)
    IN  CASE outcome.verdict = "passed" ->
               [st EXCEPT !.passed = Append(@, id), !.last[id] = "passed"]
          [] outcome.verdict = "failed" ->
               [st EXCEPT !.rules[id] = [error |-> outcome.error] @@ @,
                          !.failed = Append(@, id),
                          !.last[id] = "failed"]
          [] outcome.verdict = "skipped" -> st
          [] outcome.verdict = "raise" ->
               [st EXCEPT !.ok = FALSE, !.error = outcome.error]

RECURSIVE ValidateLoop(_, _, _)
ValidateLoop(st, list, i) ==
    IF i > Len(list) \/ ~st.ok THEN st
    ELSE ValidateLoop(ValidateStep(st, list[i]), list, i + 1)

\* pass_rate without the guard for an empty rule list: a division by zero
PassRate_Unguarded(passed, list) == [num |-> Len(passed), den |-> Len(list)]

\* results['pass_rate'] = len(results['passed']) / len(rules) if rules else 0,
\* as a fraction
PassRate(passed, list) ==
    IF list # <<>> THEN [num |-> Len(passed), den |-> Len(list)]
    ELSE [num |-> 0, den |-> 1]

\* validate_data_quality(df, rules): rules are the caller's dicts, list the
\* identities passed, last the verdicts so far
validate_data_quality(rules, last, t, list) ==
    LET final == ValidateLoop([ok |-> TRUE, error |-> "none", rules |-> rules,
                               df |-> t, passed |-> <<>>, failed |-> <<>>,
                               last |-> last], list, 1)
    IN  [ok      |-> final.ok,
         error   |-> final.error,
         rules   |-> final.rules,
         df      |-> final.df,
         last    |-> final.last,
         results |-> IF final.ok
                     THEN [passed      |-> final.passed,
                           failed      |-> final.failed,
                           total_rules |-> Len(list),
                           pass_rate   |-> PassRate(final.passed, list)]
                     ELSE <<>>]

-----------------------------------------------------------------------------
(* Inputs of the transform calls *)

BoundedSeq(S, n) == UNION {[1..k -> S] : k \in 0..n}

Cells == {Null, <<0>>, <<1>>}
TCols == <<"a", "b">>
Tables == {[cols |-> TCols, rows |-> rs] :
              rs \in BoundedSeq([DOMAIN TCols -> Cells], MaxRows)}

\* Operation descriptors over the columns a, b and the absent column z
Descriptors ==
    { [operation |-> "drop_nulls"],
      [operation |-> "drop_nulls", columns |-> <<"b">>],
      [operation |-> "drop_nulls", columns |-> <<"z">>],
      [operation |-> "fill_nulls"],
      [operation |-> "rename", mapping |-> [a |-> "c"]],
      [operation |-> "rename", mapping |-> [z |-> "c"]],
      [operation |-> "filter", condition |-> [col |-> "b", cmp |-> ">", val |-> 0]],
      [operation |-> "filter", condition |-> [col |-> "z", cmp |-> ">", val |-> 0]],
      [operation |-> "aggregate", group_by |-> <<"a">>,
                                  aggregations |-> << <<"b", "sum">> >>],
      [operation |-> "aggregate", group_by |-> <<"a">>,
                                  aggregations |-> << <<"z", "sum">> >>],
      [operation |-> "add_column", name |-> "d", value |-> 1],
      [operation |-> "convert_type", column |-> "b", dtype |-> "int"],
      [operation |-> "convert_type", column |-> "z", dtype |-> "int"],
      [operation |-> "normalize"],
      [note |-> "no operation key"] }

NoTransformations == [given |-> FALSE, list |-> <<>>]
TransformationLists ==
    {NoTransformations}
    \cup {[given |-> TRUE, list |-> l] : l \in BoundedSeq(Descriptors, MaxOps)}

-----------------------------------------------------------------------------
(* Idle values of the three groups of variables *)

NoTable == [cols |-> <<>>, rows |-> <<>>]
NoResult == [ok |-> TRUE, df |-> NoTable]

TransformIdle ==
    /\ t_pc = "idle"
    /\ t_df = NoTable
    /\ t_transformations = NoTransformations
    /\ t_result = NoResult

EtlIdle ==
    /\ pc = "idle"
    /\ self = <<>>
    /\ bucket = <<>>
    /\ args = <<>>
    /\ obj = <<>>
    /\ df = NoTable
    /\ df_transformed = NoTable
    /\ buffer = <<>>
    /\ steps = <<>>
    /\ puts = <<>>
    /\ stats = <<>>
    /\ error = "none"

ValidateIdle ==
    /\ v_pc = "idle"
    /\ v_rules = <<>>
    /\ v_arg = NoTable
    /\ v_df = NoTable
    /\ v_list = <<>>
    /\ v_results = <<>>
    /\ v_last = <<>>

-----------------------------------------------------------------------------
(* Specification of a transform call *)

\* transform(df, transformations), lines 76-134
TransformCall ==
    /\ t_pc = "call"
    /\ LET r == transform(t_df, t_transformations)
       IN  /\ t_result' = r
           /\ t_pc' = IF r.ok THEN "returned" ELSE "raised"
    /\ UNCHANGED <<t_df, t_transformations, etl_vars, v_vars>>

InitT ==
    /\ t_pc = "call"
    /\ t_df \in Tables
    /\ t_transformations \in TransformationLists
    /\ t_result = NoResult
    /\ EtlIdle
    /\ ValidateIdle

NextT == TransformCall

SpecT == InitT /\ [][NextT]_vars

-----------------------------------------------------------------------------
(* The pipeline object and the object store *)

\* __init__: the attributes the constructor sets for a provider; an unknown
\* provider raises ValueError
Construct(cloud_provider, bucket_name, region) ==
    LET fields == [cloud_provider |-> cloud_provider,
                   bucket_name    |-> bucket_name,
                   region         |-> region]
    IN  IF cloud_provider = "aws"
        THEN [ok |-> TRUE, self |-> fields @@ [attrs |-> {"s3_client"}]]
        ELSE IF cloud_provider = "gcp"
        THEN [ok |-> TRUE, self |-> fields @@ [attrs |-> {"gcs_client", "bucket"}]]
        ELSE [ok |-> FALSE, error |-> "ValueError"]

\* An object key is [stem, suffix]; key.endswith(s) looks at the suffix
EndsWith(key, s) == key.suffix = s

Absent == [kind |-> "absent"]
Stored(kind, t) == [kind |-> kind, table |-> t]

\* pd.read_csv / read_parquet / read_json on a stored body: a body of another
\* format, or a damaged one, does not parse
Read(parser, body) ==
    IF body.kind = parser THEN Ok(body.table) ELSE Raise("ParserError")

\* extract_from_s3 after get_object: the reader is chosen by the key's suffix
Decode(key, body) ==
    IF EndsWith(key, ".csv") THEN Read("csv", body)
    ELSE IF EndsWith(key, ".parquet") THEN Read("parquet", body)
    ELSE IF EndsWith(key, ".json") THEN Read("json", body)
    ELSE Raise("ValueError")

\* The writer choice with csv as the fallback for any other format name
Encode_Fallback(t, format) ==
    IF format = "parquet" THEN [ok |-> TRUE, buffer |-> Stored("parquet", t)]
    ELSE IF format = "json" THEN [ok |-> TRUE, buffer |-> Stored("json", t)]
    ELSE [ok |-> TRUE, buffer |-> Stored("csv", t)]

\* load_to_s3 before put_object: the writer is chosen by the format name
Encode(t, format) ==
    IF format = "parquet" THEN [ok |-> TRUE, buffer |-> Stored("parquet", t)]
    ELSE IF format = "csv" THEN [ok |-> TRUE, buffer |-> Stored("csv", t)]
    ELSE IF format = "json" THEN [ok |-> TRUE, buffer |-> Stored("json", t)]
    ELSE Raise("ValueError")

\* rows_per_second: output_rows / duration if duration > 0 else 0, as a
\* fraction
RowsPerSecond(output_rows, duration) ==
    IF duration > 0 THEN [num |-> output_rows, den |-> duration]
    ELSE [num |-> 0, den |-> 1]

-----------------------------------------------------------------------------
(* Inputs of the runs *)

\* id,value with rows (1, 5), (2, -3), (3, null)
SourceTable ==
    [cols |-> <<"id", "value">>,
     rows |-> << <<<<1>>, <<5>>>>, <<<<2>>, <<-3>>>>, <<<<3>>, Null>> >>]

Key(stem, suffix) == [stem |-> stem, suffix |-> suffix]
DestinationKey == Key("processed/data", ".parquet")
SourceKeys == {Key("raw/data", ".csv"), Key("raw/data", ".parquet"),
               Key("raw/data", ".json"), Key("raw/data", ".txt"),
               Key("raw/damaged", ".csv"), Key("raw/missing", ".csv")}
BucketKeys == SourceKeys \cup {DestinationKey}

InitialBucket ==
    [k \in BucketKeys |->
        CASE k = Key("raw/data", ".csv")     -> Stored("csv", SourceTable)
          [] k = Key("raw/data", ".parquet") -> Stored("parquet", SourceTable)
          [] k = Key("raw/data", ".json")    -> Stored("json", SourceTable)
          [] k = Key("raw/data", ".txt")     -> Stored("csv", SourceTable)
          [] k = Key("raw/damaged", ".csv")  -> Stored("damaged", SourceTable)
          [] OTHER                           -> Absent]

RunTransformations ==
    { NoTransformations,
      [given |-> TRUE, list |-> <<>>],
      [given |-> TRUE, list |->
         << [operation |-> "drop_nulls", columns |-> <<"value">>],
            [operation |-> "filter",
             condition |-> [col |-> "value", cmp |-> ">", val |-> 0]] >>],
      [given |-> TRUE, list |->
         << [operation |-> "convert_type", column |-> "value", dtype |-> "int"] >>],
      [given |-> TRUE, list |->
         << [operation |-> "convert_type", column |-> "value", dtype |-> "bool"],
            [operation |-> "aggregate", group_by |-> <<"value">>,
             aggregations |-> << <<"id", "count">> >>] >>],
      [given |-> TRUE, list |->
         << [operation |-> "normalize"],
            [operation |-> "filter",
             condition |-> [col |-> "amount", cmp |-> ">", val |-> 0]] >>] }

Providers == {"aws", "gcp", "azure"}
OutputFormats == {"parquet", "csv", "json", "xml"}

-----------------------------------------------------------------------------
(* Specification of a pipeline: construction, then one run_etl_pipeline *)

Init ==
    /\ pc = "new"
    /\ self = <<>>
    /\ bucket = InitialBucket
    /\ args = <<>>
    /\ obj = <<>>
    /\ df = NoTable
    /\ df_transformed = NoTable
    /\ buffer = <<>>
    /\ steps = <<>>
    /\ puts = <<>>
    /\ stats = <<>>
    /\ error = "none"
    /\ TransformIdle
    /\ ValidateIdle

Abort(e) ==
    /\ pc' = "raised"
    /\ error' = e

\* CloudDataPipeline(cloud_provider, bucket_name, region), lines 21-48
New ==
    /\ pc = "new"
    /\ \E cloud_provider \in Providers :
          LET r == Construct(cloud_provider, "my-data-bucket", "us-east-1")
          IN  IF r.ok
              THEN /\ self' = r.self
                   /\ pc' = "ready"
                   /\ error' = error
              ELSE /\ self' = self
                   /\ pc' = "no_object"
                   /\ error' = r.error
    /\ UNCHANGED <<bucket, args, obj, df, df_transformed, buffer, steps, puts, stats>>
    /\ UNCHANGED <<t_vars, v_vars>>

\* run_etl_pipeline is called, lines 178-199
RunStart ==
    /\ pc = "ready"
    /\ \E source_key \in SourceKeys, transformations \in RunTransformations,
          output_format \in OutputFormats :
          args' = [source_key      |-> source_key,
                   destination_key |-> DestinationKey,
                   transformations |-> transformations,
                   output_format   |-> output_format]
    /\ pc' = "get_object"
    /\ UNCHANGED <<self, bucket, obj, df, df_transformed, buffer, steps, puts, stats, error>>
    /\ UNCHANGED <<t_vars, v_vars>>

\* extract_from_s3: self.s3_client.get_object(Bucket, Key), line 62
GetObject ==
    /\ pc = "get_object"
    /\ \/ /\ "s3_client" \notin self.attrs
          /\ Abort("AttributeError")
          /\ UNCHANGED <<obj, steps>>
       \/ /\ "s3_client" \in self.attrs
          /\ bucket[args.source_key] = Absent
          /\ Abort("NoSuchKey")
          /\ UNCHANGED <<obj, steps>>
       \/ /\ "s3_client" \in self.attrs
          /\ Abort("ClientError")
          /\ UNCHANGED <<obj, steps>>
       \/ /\ "s3_client" \in self.attrs
          /\ bucket[args.source_key] # Absent
          /\ obj' = [Body |-> bucket[args.source_key]]
          /\ steps' = Append(steps, "fetch")
          /\ pc' = "read"
          /\ error' = error
    /\ UNCHANGED <<self, bucket, args, df, df_transformed, buffer, puts, stats>>
    /\ UNCHANGED <<t_vars, v_vars>>

\* extract_from_s3: the reader chosen by the suffix, lines 64-74
ReadBody ==
    /\ pc = "read"
    /\ LET r == Decode(args.source_key, obj.Body)
       IN  IF r.ok
           THEN /\ df' = r.df
                /\ steps' = Append(steps, "decode")
                /\ pc' = "transform"
                /\ error' = error
           ELSE /\ Abort(r.error)
                /\ UNCHANGED <<df, steps>>
    /\ UNCHANGED <<self, bucket, args, obj, df_transformed, buffer, puts, stats>>
    /\ UNCHANGED <<t_vars, v_vars>>

\* df_transformed = self.transform(df, transformations), line 206
Transform ==
    /\ pc = "transform"
    /\ LET r == transform(df, args.transformations)
       IN  IF r.ok
           THEN /\ df_transformed' = r.df
                /\ steps' = Append(steps, "transform")
                /\ pc' = "write"
                /\ error' = error
           ELSE /\ Abort(r.error)
                /\ UNCHANGED <<df_transformed, steps>>
    /\ UNCHANGED <<self, bucket, args, obj, df, buffer, puts, stats>>
    /\ UNCHANGED <<t_vars, v_vars>>

\* load_to_s3: the writer chosen by the format, lines 152-174; a writer may
\* fail (to_parquet without an engine)
WriteBuffer ==
    /\ pc = "write"
    /\ LET r == Encode(df_transformed, args.output_format)
       IN  \/ /\ r.ok
              /\ buffer' = r.buffer
              /\ steps' = Append(steps, "encode")
              /\ pc' = "put_object"
              /\ error' = error
           \/ /\ r.ok
              /\ args.output_format = "parquet"
              /\ Abort("ImportError")
              /\ UNCHANGED <<buffer, steps>>
           \/ /\ ~r.ok
              /\ Abort(r.error)
              /\ UNCHANGED <<buffer, steps>>
    /\ UNCHANGED <<self, bucket, args, obj, df, df_transformed, puts, stats>>
    /\ UNCHANGED <<t_vars, v_vars>>

\* load_to_s3: self.s3_client.put_object(Bucket, Key, Body), lines 154-172
PutObject ==
    /\ pc = "put_object"
    /\ LET request == [Bucket |-> self.bucket_name,
                       Key    |-> args.destination_key,
                       Body   |-> buffer]
       IN  /\ puts' = Append(puts, request)
           /\ \/ /\ bucket' = [bucket EXCEPT ![request.Key] = request.Body]
                 /\ steps' = Append(steps, "put")
                 /\ pc' = "stats"
                 /\ error' = error
              \/ /\ Abort("ClientError")
                 /\ UNCHANGED <<bucket, steps>>
    /\ UNCHANGED <<self, args, obj, df, df_transformed, buffer, stats>>
    /\ UNCHANGED <<t_vars, v_vars>>

\* run_etl_pipeline: the stats dict, lines 212-227
ReturnStats ==
    /\ pc = "stats"
    /\ \E duration \in 0..MaxDuration :
          stats' = [input_rows       |-> NRows(df),
                    output_rows      |-> NRows(df_transformed),
                    duration_seconds |-> duration,
                    rows_per_second  |-> RowsPerSecond(NRows(df_transformed), duration),
                    source           |-> args.source_key,
                    destination      |-> args.destination_key]
    /\ pc' = "returned"
    /\ UNCHANGED <<self, bucket, args, obj, df, df_transformed, buffer, steps, puts, error>>
    /\ UNCHANGED <<t_vars, v_vars>>

Next ==
    \/ New
    \/ RunStart
    \/ GetObject
    \/ ReadBody
    \/ Transform
    \/ WriteBuffer
    \/ PutObject
    \/ ReturnStats

Spec == Init /\ [][Next]_vars

-----------------------------------------------------------------------------
(* Inputs of the validation calls *)

VCells == {Null, <<0>>, <<1>>, <<2>>}
ColumnTable(values) == [cols |-> <<"a">>, rows |-> [i \in DOMAIN values |-> <<values[i]>>]]
\* The column values [1,1,2,3,3,3] and [-1,0,5,10,11]
RepeatsTable == ColumnTable(<< <<1>>, <<1>>, <<2>>, <<3>>, <<3>>, <<3>> >>)
BoundsTable == ColumnTable(<< <<-1>>, <<0>>, <<5>>, <<10>>, <<11>> >>)
ColumnTables(n) == {ColumnTable(vs) : vs \in BoundedSeq(VCells, n)}
ValidationTables == ColumnTables(MaxVRows) \cup {RepeatsTable, BoundsTable}

\* The caller's rule dicts
InitialRules ==
    << [type |-> "not_null", column |-> "a"],
       [type |-> "unique", column |-> "a"],
       [type |-> "range", column |-> "a", min |-> 1, max |-> 1],
       [type |-> "range", column |-> "a", min |-> 0, max |-> 10],
       [type |-> "regex", column |-> "a"],
       [column |-> "a"],
       [type |-> "not_null", column |-> "z"] >>
RuleIds == DOMAIN InitialRules
RuleLists(n) == BoundedSeq(RuleIds, n)

-----------------------------------------------------------------------------
(* Specifications of validation: one call on fresh rule dicts (SpecV), and
   calls that reuse the rule dicts (SpecR) *)

InitV ==
    /\ v_pc = "idle"
    /\ v_rules = InitialRules
    /\ v_arg = NoTable
    /\ v_df = NoTable
    /\ v_list = <<>>
    /\ v_results = <<>>
    /\ v_last = [id \in RuleIds |-> "never"]
    /\ TransformIdle
    /\ EtlIdle

\* validate_data_quality(t, list), lines 229-288
Validate(t, list) ==
    LET r == validate_data_quality(v_rules, v_last, t, list)
    IN  /\ v_arg' = t
        /\ v_list' = list
        /\ v_rules' = r.rules
        /\ v_df' = r.df
        /\ v_last' = r.last
        /\ v_results' = r.results
        /\ v_pc' = IF r.ok THEN "returned" ELSE "raised"
        /\ UNCHANGED <<t_vars, etl_vars>>

ValidateCall ==
    /\ v_pc = "idle"
    /\ \E t \in ValidationTables, list \in RuleLists(MaxRules) :
          Validate(t, list)

NextV == ValidateCall

SpecV == InitV /\ [][NextV]_vars

ValidateAgain ==
    \E t \in ColumnTables(MaxReuseRows), list \in RuleLists(MaxReuseRules) :
        Validate(t, list)

NextR == ValidateAgain

SpecR == InitV /\ [][NextR]_vars

-----------------------------------------------------------------------------
(* Claims about run_etl_pipeline *)

StepOrder == <<"fetch", "decode", "transform", "encode", "put">>
IsPrefix(s, full) == Len(s) <= Len(full) /\ s = SubSeq(full, 1, Len(s))

\* The number of steps that are complete when the run is at a position
StepsBefore(position) ==
    CASE position = "get_object" -> 0
      [] position = "read"       -> 1
      [] position = "transform"  -> 2
      [] position = "write"      -> 3
      [] position = "put_object" -> 4
      [] position = "stats"      -> 5
      [] position = "returned"   -> 5

InRun == pc \in {"get_object", "read", "transform", "write", "put_object",
                 "stats", "returned", "raised"}

\* C1: the steps of a run complete in the order fetch, decode, transform,
\* encode, put, each starting only when the previous ones are complete; a run
\* whose fetch, decode, transform or encode failed has aborted with an error,
\* has issued no put, has left the destination key alone and returns no
\* stats; an unsupported source suffix never gets past the decode, a failing
\* transform never past the transform, an unsupported output format never
\* past the encode.
C1_StepsInOrderAndAbort ==
    InRun =>
        /\ IsPrefix(steps, StepOrder)
        /\ pc # "raised" => Len(steps) = StepsBefore(pc)
        /\ (pc = "raised" /\ Len(steps) < 4) =>
              /\ error # "none"
              /\ puts = <<>>
              /\ bucket = InitialBucket
              /\ stats = <<>>
        /\ Len(steps) >= 2 => args.source_key.suffix \in {".csv", ".parquet", ".json"}
        /\ Len(steps) >= 3 => transform(df, args.transformations).ok
        /\ Len(steps) >= 4 => args.output_format \in {"parquet", "csv", "json"}
        /\ puts # <<>> => Len(steps) >= 4
        /\ stats # <<>> => pc = "returned" /\ steps = StepOrder

\* A run aborted in its encode step, after a transform that changed the table
C1_Witness ==
    /\ pc = "raised"
    /\ steps = <<"fetch", "decode", "transform">>
    /\ args.output_format = "xml"
    /\ df_transformed # df

\* C9: a pipeline constructed for aws or for gcp is bound to a backend its
\* fetch and store work on: a run on it with an existing source object is not
\* stopped in its fetch step by anything but the storage service, for gcp
\* exactly as for aws.
C9_BothProvidersBound ==
    (pc = "raised" /\ steps = <<>> /\ bucket[args.source_key] # Absent) =>
        error = "ClientError"

-----------------------------------------------------------------------------
(* Claims about transform *)

\* Applying o1, then o2, ..., then on, each to the output of the previous one,
\* defined from the last operation backwards
RECURSIVE FoldOps(_, _)
FoldOps(t, list) ==
    IF list = <<>> THEN Ok(t)
    ELSE LET before == FoldOps(t, SubSeq(list, 1, Len(list) - 1))
         IN  IF before.ok THEN ApplyOperation(before.df, list[Len(list)])
             ELSE before

\* C2: transform(T, [o1..on]) is the left fold of the operations over T in
\* list order (it returns the fold's table, and raises exactly when the fold
\* does); with an empty list or None it returns a table equal to T.
C2_TransformIsLeftFold ==
    t_pc # "call" =>
        LET fold == FoldOps(t_df, t_transformations.list)
        IN  /\ t_result.ok = fold.ok
            /\ t_result.ok => t_result.df = fold.df
            /\ ~t_result.ok => t_result.error = fold.error
            /\ t_transformations.list = <<>> =>
                  t_pc = "returned" /\ t_result.df = t_df

\* A call of two operations returned a table that is neither the input nor
\* the first operation's output
C2_Witness ==
    /\ t_pc = "returned"
    /\ Len(t_transformations.list) >= 2
    /\ t_result.df # t_df
    /\ t_result.df # ApplyOperation(t_df, t_transformations.list[1]).df

KnownKinds == {"drop_nulls", "fill_nulls", "rename", "filter", "aggregate",
               "add_column", "convert_type"}
IsKnown(d) == "operation" \in DOMAIN d /\ d.operation \in KnownKinds

\* C3: descriptors of an unknown kind, or with no kind, are no-ops that raise
\* nothing: the call's outcome is that of the call on the list with those
\* descriptors removed.
C3_UnknownKindsIgnored ==
    t_pc # "call" =>
        LET known == [given |-> t_transformations.given,
                      list  |-> SelectSeq(t_transformations.list, IsKnown)]
            r == transform(t_df, known)
        IN  /\ t_result.ok = r.ok
            /\ t_result.ok => t_result.df = r.df
            /\ ~t_result.ok => t_result.error = r.error

\* A call whose list holds an unknown descriptor returned a changed table
C3_Witness ==
    /\ t_pc = "returned"
    /\ \E i \in DOMAIN t_transformations.list : ~IsKnown(t_transformations.list[i])
    /\ t_result.df # t_df

\* The columns a descriptor names
NamedColumns(d) ==
    LET operation == Get(d, "operation", "None")
    IN  CASE operation = "drop_nulls"   -> Range(Get(d, "columns", <<>>))
          [] operation = "rename"       -> DOMAIN Get(d, "mapping", <<>>)
          [] operation = "filter"       -> {d.condition.col}
          [] operation = "aggregate"    ->
                Range(d.group_by) \cup {d.aggregations[i][1] : i \in DOMAIN d.aggregations}
          [] operation = "convert_type" -> {d.column}
          [] OTHER                      -> {}

ColumnNotFound == {"KeyError", "UndefinedVariableError"}

\* Operation k of the call is reached, and names a column its input table
\* does not have
MissesColumn(k) ==
    LET before == FoldOps(t_df, SubSeq(t_transformations.list, 1, k - 1))
    IN  /\ before.ok
        /\ \E c \in NamedColumns(t_transformations.list[k]) : ~HasCol(before.df, c)

FailsAt(k) ==
    /\ t_pc = "raised"
    /\ t_result.at = k
    /\ t_result.error \in ColumnNotFound

\* C4 as stated: every operation that names a column absent from the table at
\* the moment it is reached, rename included, makes transform fail there.
C4_Original ==
    t_pc # "call" =>
        \A k \in DOMAIN t_transformations.list : MissesColumn(k) => FailsAt(k)

\* C4 as amended: drop_nulls with a subset, filter, aggregate and convert_type
\* fail with a column-not-found error at the operation that names an absent
\* column, and nothing after it is applied; rename does not fail on an absent
\* label: it leaves the table's labels it does not find alone and the loop
\* goes on.
C4_MissingColumnFails ==
    t_pc # "call" =>
        \A k \in DOMAIN t_transformations.list :
            MissesColumn(k) =>
                IF t_transformations.list[k].operation = "rename"
                THEN t_pc = "raised" => t_result.at > k
                ELSE FailsAt(k)

\* The second operation failed on a column the input table had: the first
\* operation took it away
C4_Witness ==
    /\ FailsAt(2)
    /\ \A c \in NamedColumns(t_transformations.list[2]) : HasCol(t_df, c)

-----------------------------------------------------------------------------
(* Claims about validate_data_quality *)

KnownRuleTypes == {"not_null", "unique", "range"}
IsKnownRule(rule) == "type" \in DOMAIN rule /\ rule.type \in KnownRuleTypes
Members(list) == {list[i] : i \in DOMAIN list}

\* The violation count of a rule of a known type on a table
ViolationCount(rule, t) ==
    LET col == Column(t, rule.column)
    IN  CASE rule.type = "not_null" ->
               Cardinality({i \in DOMAIN col : col[i] = Null})
          [] rule.type = "unique" ->
               Len(col) - Cardinality(Members(col))
          [] rule.type = "range" ->
               Cardinality({i \in DOMAIN col :
                   col[i] # Null /\ (col[i][1] < rule.min \/ col[i][1] > rule.max)})

CountText(rule) ==
    CASE rule.type = "not_null" -> " null values found"
      [] rule.type = "unique"   -> " duplicates found"
      [] rule.type = "range"    -> " values out of range"

\* C5: in a returned report every rule of a known type is in passed iff its
\* violation count is zero and in failed otherwise (not_null: null entries;
\* unique: entries beyond the first occurrence of a value; range: values
\* strictly below min or strictly above max), and a failed rule's message
\* states that count; [1,1,2,3,3,3] has 3 duplicates and min=0, max=10 on
\* [-1,0,5,10,11] has 2 values out of range.
C5_VerdictByViolationCount ==
    v_pc = "returned" =>
        /\ \A id \in Members(v_list) :
              IsKnownRule(InitialRules[id]) =>
                  LET n == ViolationCount(InitialRules[id], v_arg)
                  IN  /\ n = 0 <=> id \in Members(v_results.passed)
                      /\ n # 0 <=> id \in Members(v_results.failed)
                      /\ n # 0 => v_rules[id].error
                                     = ToString(n) \o CountText(InitialRules[id])
        /\ (v_arg = RepeatsTable /\ 2 \in Members(v_list)) =>
              v_rules[2].error = "3 duplicates found"
        /\ (v_arg = BoundsTable /\ 4 \in Members(v_list)) =>
              v_rules[4].error = "2 values out of range"

\* The range rule min=0, max=10 failed on [-1,0,5,10,11]
C5_Witness ==
    /\ v_pc = "returned"
    /\ v_arg = BoundsTable
    /\ 4 \in Members(v_results.failed)

\* C6: a returned report has total_rules = the length of the rule list and
\* pass_rate = |passed| / total_rules, between 0 and 1; for the empty list
\* the call returns, with pass_rate exactly 0 and no division by zero.
C6_PassRate ==
    /\ v_pc = "returned" =>
          /\ v_results.total_rules = Len(v_list)
          /\ v_results.pass_rate.den # 0
          /\ v_list # <<>> =>
                /\ v_results.pass_rate.num = Len(v_results.passed)
                /\ v_results.pass_rate.den = v_results.total_rules
          /\ 0 <= v_results.pass_rate.num
          /\ v_results.pass_rate.num <= v_results.pass_rate.den
          /\ v_list = <<>> => v_results.pass_rate.num = 0
    /\ v_pc = "raised" => v_list # <<>>

\* A report over a list holding an unknown rule type has a pass_rate strictly
\* between 0 and 1
C6_Witness ==
    /\ v_pc = "returned"
    /\ \E id \in Members(v_list) : ~IsKnownRule(InitialRules[id])
    /\ 0 < v_results.pass_rate.num
    /\ v_results.pass_rate.num < v_results.pass_rate.den

\* C7: in a returned report each rule of a known type is in exactly one of
\* passed and failed, each rule of an unknown type in neither, so that
\* |passed| + |failed| <= total_rules with equality iff no rule of the list
\* has an unknown type; rules of unknown type raise nothing.
C7_KnownRulesPartitioned ==
    LET unknown == {i \in DOMAIN v_list : ~IsKnownRule(InitialRules[v_list[i]])}
    IN  /\ v_pc = "returned" =>
              LET P == Members(v_results.passed)
                  F == Members(v_results.failed)
              IN  /\ \A id \in Members(v_list) :
                        IF IsKnownRule(InitialRules[id])
                        THEN (id \in P) # (id \in F)
                        ELSE id \notin P /\ id \notin F
                  /\ Len(v_results.passed) + Len(v_results.failed)
                        <= v_results.total_rules
                  /\ (Len(v_results.passed) + Len(v_results.failed)
                        = v_results.total_rules) <=> unknown = {}
        /\ v_pc = "raised" => unknown # DOMAIN v_list

\* A report over a rule of a known type and a rule of an unknown type
C7_Witness ==
    /\ v_pc = "returned"
    /\ \E id \in Members(v_list) : IsKnownRule(InitialRules[id])
    /\ \E id \in Members(v_list) : ~IsKnownRule(InitialRules[id])
    /\ v_results.failed # <<>>

Reorderings(list) ==
    {[i \in DOMAIN list |-> list[p[i]]] :
        p \in {q \in [DOMAIN list -> DOMAIN list] :
                 \A i, j \in DOMAIN list : q[i] = q[j] => i = j}}

\* C8: the call on any permutation of the rule list gives every rule the same
\* verdict and the same message, the same sets passed and failed and the same
\* pass_rate (and raises iff the call does); the table after the call is the
\* table before it.
C8_OrderIndependent ==
    v_pc # "idle" =>
        /\ v_df = v_arg
        /\ \A other \in Reorderings(v_list) :
              LET r == validate_data_quality(InitialRules,
                          [id \in RuleIds |-> "never"], v_arg, other)
              IN  /\ r.ok = (v_pc = "returned")
                  /\ r.ok =>
                        /\ Members(r.results.passed) = Members(v_results.passed)
                        /\ Members(r.results.failed) = Members(v_results.failed)
                        /\ r.results.pass_rate = v_results.pass_rate
                        /\ r.rules = v_rules
                        /\ r.last = v_last

\* A report over two different rules, one passed and one failed
C8_Witness ==
    /\ v_pc = "returned"
    /\ Len(v_list) >= 2
    /\ v_list[1] # v_list[2]
    /\ v_results.passed # <<>>
    /\ v_results.failed # <<>>

\* C10: across calls that reuse the rule dicts, a rule dict carries an error
\* annotation iff the latest call that evaluated it put it in failed; every
\* rule in a returned passed list carries no error.
C10_ErrorIffLastFailed ==
    /\ \A id \in RuleIds :
          ("error" \in DOMAIN v_rules[id]) <=> v_last[id] = "failed"
    /\ v_pc = "returned" =>
          \A id \in Members(v_results.passed) : "error" \notin DOMAIN v_rules[id]

====
